---- MODULE Spec2Model ----
(***************************************************************************)
(* A model of main.py (VAII): the document pipeline processar_documentos   *)
(* with its extractors, the CPF check-digit validation, the benefit        *)
(* estimate, the completeness check and the approval score.                *)
(*                                                                         *)
(* A Python str is a sequence of one-character strings.  A value that may  *)
(* be None is None (the empty tuple) or Some(v) (a one-element tuple).  A  *)
(* dict is a function whose DOMAIN is its set of keys; PyGet is dict.get.  *)
(* Amounts are integers in cents (a Python float rounded to 2 places).     *)
(***************************************************************************)
EXTENDS Integers, Sequences, FiniteSets, TLC

VARIABLES
  proc,    \* proc[p]: the frame of request p's call of processar_documentos
  fs,      \* the files of the directory temp/: file name -> content
  posix,   \* whether os.rename replaces an existing destination (POSIX) or raises (Windows)
  arg,     \* the argument of a function called on its own
  res      \* its result, None until it has returned

vars == <<proc, fs, posix, arg, res>>

None == <<>>
Some(v) == <<v>>

PyGet(d, k) == IF k \in DOMAIN d THEN d[k] ELSE None

\* dict d with d[k] = v
PyPut(d, k, v) == [x \in DOMAIN d \cup {k} |-> IF x = k THEN v ELSE d[x]]

EmptyDict == [x \in {} |-> None]

\* A call's outcome: a returned value, or an exception that nothing caught.
Ret(v) == [exc |-> None, value |-> v]
Raise(e) == [exc |-> Some(e), value |-> None]

(***************************************************************************)
(* Characters and str methods                                              *)
(***************************************************************************)
DigitChars == <<"0", "1", "2", "3", "4", "5", "6", "7", "8", "9">>
LowerChars == <<"a", "b", "c", "d", "e", "f", "g", "h", "i", "j", "k", "l", "m",
                "n", "o", "p", "q", "r", "s", "t", "u", "v", "w", "x", "y", "z",
                "ã", "é", "ô">>
UpperChars == <<"A", "B", "C", "D", "E", "F", "G", "H", "I", "J", "K", "L", "M",
                "N", "O", "P", "Q", "R", "S", "T", "U", "V", "W", "X", "Y", "Z",
                "Ã", "É", "Ô">>

IndexOf(tbl, c) == IF \E i \in 1..Len(tbl) : tbl[i] = c
                   THEN CHOOSE i \in 1..Len(tbl) : tbl[i] = c
                   ELSE 0

DigitSet == {DigitChars[i] : i \in 1..10}
LetterSet == {LowerChars[i] : i \in 1..Len(LowerChars)} \cup {UpperChars[i] : i \in 1..Len(UpperChars)}
AsciiAlnumSet == DigitSet \cup {LowerChars[i] : i \in 1..26} \cup {UpperChars[i] : i \in 1..26}

IsDigit(c) == c \in DigitSet
DigitVal(c) == IndexOf(DigitChars, c) - 1
DigitChr(n) == DigitChars[n + 1]
IsLower(c) == IndexOf(LowerChars, c) > 0
IsUpper(c) == IndexOf(UpperChars, c) > 0
IsAlpha(c) == c \in LetterSet
\* [a-zA-Z0-9]: the ASCII letters are the first 26 of each table
IsAsciiAlnum(c) == c \in AsciiAlnumSet
SpaceSet == {" ", "\n", "\t"}
IsSpace(c) == c \in SpaceSet
ToLower(c) == IF IsUpper(c) THEN LowerChars[IndexOf(UpperChars, c)] ELSE c
ToUpper(c) == IF IsLower(c) THEN UpperChars[IndexOf(LowerChars, c)] ELSE c

Min(S) == CHOOSE x \in S : \A y \in S : x <= y
Max(S) == CHOOSE x \in S : \A y \in S : x >= y

\* str.lower()
Lower(s) == [i \in 1..Len(s) |-> ToLower(s[i])]

\* str.strip()
Strip(s) ==
  LET keep == {i \in 1..Len(s) : ~IsSpace(s[i])}
  IN IF keep = {} THEN <<>> ELSE SubSeq(s, Min(keep), Max(keep))

\* str.title(): a letter is upper-cased after a character that is no letter, lower-cased otherwise
Title(s) ==
  [i \in 1..Len(s) |->
     IF ~IsAlpha(s[i]) THEN s[i]
     ELSE IF i = 1 \/ ~IsAlpha(s[i - 1]) THEN ToUpper(s[i]) ELSE ToLower(s[i])]

\* re.sub(r'\D', '', s)
OnlyDigits(s) == SelectSeq(s, IsDigit)

(***************************************************************************)
(* Regular expressions: a pattern of fixed shape is a sequence whose       *)
(* elements are PD (the class \d) or a literal character.                  *)
(***************************************************************************)
PD == "\\d"

MatchFixed(s, i, pat) ==
  /\ i >= 1
  /\ i + Len(pat) - 1 <= Len(s)
  /\ \A k \in 1..Len(pat) :
       IF pat[k] = PD THEN IsDigit(s[i + k - 1]) ELSE s[i + k - 1] = pat[k]

\* The same with re.IGNORECASE
MatchFixedCI(s, i, pat) ==
  /\ i >= 1
  /\ i + Len(pat) - 1 <= Len(s)
  /\ \A k \in 1..Len(pat) : ToLower(s[i + k - 1]) = ToLower(pat[k])

\* re.search of a fixed-shape pattern: the leftmost position that matches, 0 if none
SearchFixed(s, pat) ==
  LET hits == {i \in 1..Len(s) : MatchFixed(s, i, pat)}
  IN IF hits = {} THEN 0 ELSE Min(hits)

\* The end of the longest run of characters of the set C that starts at j (j - 1: an
\* empty run)
RunEnd(s, j, C) ==
  LET stops == {k \in j..Len(s) : s[k] \notin C}
  IN IF stops = {} THEN Len(s) ELSE Min(stops) - 1

NaoEncontrado == <<"N", "ã", "o", " ", "e", "n", "c", "o", "n", "t", "r", "a", "d", "o">>

CpfPat == <<PD, PD, PD, ".", PD, PD, PD, ".", PD, PD, PD, "-", PD, PD>>
Cpf11Pat == <<PD, PD, PD, PD, PD, PD, PD, PD, PD, PD, PD>>

extrair_cpf(texto) ==
  LET i == SearchFixed(texto, CpfPat)
      j == SearchFixed(texto, Cpf11Pat)
      g == SubSeq(texto, j, j + 10)
  IN IF i > 0 THEN SubSeq(texto, i, i + 13)
     ELSE IF j > 0
          THEN SubSeq(g, 1, 3) \o <<".">> \o SubSeq(g, 4, 6) \o <<".">>
               \o SubSeq(g, 7, 9) \o <<"-">> \o SubSeq(g, 10, 11)
          ELSE NaoEncontrado

NomeLabel == <<"N", "o", "m", "e", ":">>
NameCharSet == LetterSet \cup SpaceSet

\* Nome:\s*([A-Za-z...\s]+) matches at i when a character of the class follows the
\* label.  \s* takes the leading white space and the group the rest of the run; when
\* the run is white space only, \s* gives its last character back to the group.
extrair_nome(texto) ==
  LET hits == {i \in 1..Len(texto) :
                 /\ MatchFixedCI(texto, i, NomeLabel)
                 /\ i + 5 <= Len(texto)
                 /\ texto[i + 5] \in NameCharSet}
      i == Min(hits)
      e == RunEnd(texto, i + 5, NameCharSet)
      w == RunEnd(texto, i + 5, SpaceSet)
      grupo == IF w < e THEN SubSeq(texto, w + 1, e) ELSE SubSeq(texto, e, e)
  IN IF hits = {} THEN NaoEncontrado ELSE Title(Strip(grupo))

PisLabel == <<"P", "I", "S", "/", "P", "A", "S", "E", "P">>
PisNumPat == <<PD, PD, PD, ".", PD, PD, PD, PD, PD, ".", PD, PD, "-", PD>>
ColonSpaceSet == {":"} \cup SpaceSet

extrair_pis(texto) ==
  LET hits == {i \in 1..Len(texto) :
                 /\ MatchFixed(texto, i, PisLabel)
                 /\ MatchFixed(texto, RunEnd(texto, i + 9, ColonSpaceSet) + 1, PisNumPat)}
      i == Min(hits)
  IN IF hits = {} THEN NaoEncontrado
     ELSE SubSeq(texto, i, RunEnd(texto, i + 9, ColonSpaceSet) + 14)

(***************************************************************************)
(* extrair_contribuicoes                                                   *)
(***************************************************************************)
DataPat == <<PD, PD, PD, PD, "-", PD, PD, ":">>
NumCharSet == DigitSet \cup {".", ","}

\* re.findall(r'(\d{4}-\d{2}):\s*([\d.,]+)', texto) from position i on: the
\* non-overlapping matches left to right, each <<data_str, valor_str>>
RECURSIVE FindAllContrib(_, _)
FindAllContrib(texto, i) ==
  IF i > Len(texto) THEN <<>>
  ELSE IF MatchFixed(texto, i, DataPat)
       THEN LET j == RunEnd(texto, i + 8, SpaceSet) + 1
                e == RunEnd(texto, j, NumCharSet)
            IN IF e >= j
               THEN << <<SubSeq(texto, i, i + 6), SubSeq(texto, j, e)>> >>
                    \o FindAllContrib(texto, e + 1)
               ELSE FindAllContrib(texto, i + 1)
       ELSE FindAllContrib(texto, i + 1)

\* valor_str.replace('.', '').replace(',', '.')
IsNotDot(c) == c # "."
CommaToDot(c) == IF c = "," THEN "." ELSE c
Normalizar(valor_str) ==
  LET t == SelectSeq(valor_str, IsNotDot)
  IN [k \in 1..Len(t) |-> CommaToDot(t[k])]

\* The number a sequence of digits writes
RECURSIVE DigitsToNat(_)
DigitsToNat(ds) ==
  IF ds = <<>> THEN 0
  ELSE 10 * DigitsToNat(SubSeq(ds, 1, Len(ds) - 1)) + DigitVal(ds[Len(ds)])

\* float(t) for t of digits and points: a ValueError unless t holds a digit and at most
\* one point
FloatParses(t) ==
  /\ \E k \in 1..Len(t) : IsDigit(t[k])
  /\ Cardinality({k \in 1..Len(t) : t[k] = "."}) <= 1

\* round(float(t), 2), in cents.  The third fractional digit decides; a tie (that digit
\* is 5 and only zeros follow) depends on the binary value of the float, and is here
\* rounded down: no text of this model holds one.
FloatCents(t) ==
  LET dots == {k \in 1..Len(t) : t[k] = "."}
      p == IF dots = {} THEN Len(t) + 1 ELSE Min(dots)
      inteiro == SubSeq(t, 1, p - 1)
      frac == SubSeq(t, p + 1, Len(t))
      f(k) == IF k <= Len(frac) THEN DigitVal(frac[k]) ELSE 0
      up == \/ f(3) > 5
            \/ f(3) = 5 /\ \E k \in 4..Len(frac) : f(k) > 0
  IN DigitsToNat(inteiro) * 100 + 10 * f(1) + f(2) + (IF up THEN 1 ELSE 0)

\* The loop of extrair_contribuicoes over the matches: a numeral float() rejects is
\* logged and skipped
RECURSIVE FoldContrib(_, _)
FoldContrib(contribs, matches) ==
  IF matches = <<>> THEN contribs
  ELSE LET data_str == matches[1][1]
           t == Normalizar(matches[1][2])
       IN FoldContrib(IF FloatParses(t) THEN PyPut(contribs, data_str, FloatCents(t))
                      ELSE contribs,
                      Tail(matches))

extrair_contribuicoes(texto) == FoldContrib(EmptyDict, FindAllContrib(texto, 1))

(***************************************************************************)
(* validar_cpf                                                             *)
(***************************************************************************)
\* calcular_digito: the weights run down from peso_inicial
RECURSIVE SomaPesos(_, _)
SomaPesos(cpf_parcial, peso_inicial) ==
  IF cpf_parcial = <<>> THEN 0
  ELSE DigitVal(cpf_parcial[1]) * peso_inicial
       + SomaPesos(Tail(cpf_parcial), peso_inicial - 1)

calcular_digito(cpf_parcial, peso_inicial) ==
  LET resto == SomaPesos(cpf_parcial, peso_inicial) % 11
  IN IF resto < 2 THEN "0" ELSE DigitChr(11 - resto)

\* validar_cpf without the test cpf == cpf[0] * 11
validar_cpf_sem_repetidos(cpf_in) ==
  LET cpf == OnlyDigits(cpf_in)
      digito1 == calcular_digito(SubSeq(cpf, 1, 9), 10)
      digito2 == calcular_digito(SubSeq(cpf, 1, 9) \o <<digito1>>, 11)
  IN IF Len(cpf) # 11 THEN FALSE
     ELSE SubSeq(cpf, 10, 11) = <<digito1, digito2>>

validar_cpf(cpf_in) ==
  LET cpf == OnlyDigits(cpf_in)
      digito1 == calcular_digito(SubSeq(cpf, 1, 9), 10)
      digito2 == calcular_digito(SubSeq(cpf, 1, 9) \o <<digito1>>, 11)
  IN IF Len(cpf) # 11 \/ cpf = [k \in 1..11 |-> cpf[1]] THEN FALSE
     ELSE SubSeq(cpf, 10, 11) = <<digito1, digito2>>

(***************************************************************************)
(* calcular_beneficio                                                      *)
(***************************************************************************)
\* Code points of the characters of a YYYY-MM key, for str comparison
Ord(c) == IF IsDigit(c) THEN 48 + DigitVal(c) ELSE 45

\* a < b for str
StrLess(a, b) ==
  \E k \in 1..Len(b) :
    /\ \A m \in 1..(k - 1) : m <= Len(a) /\ a[m] = b[m]
    /\ \/ k = Len(a) + 1
       \/ k <= Len(a) /\ Ord(a[k]) < Ord(b[k])

\* sorted(keys, reverse=True)
RECURSIVE SortedDesc(_)
SortedDesc(keys) ==
  IF keys = {} THEN <<>>
  ELSE LET top == CHOOSE x \in keys : \A y \in keys \ {x} : StrLess(y, x)
       IN <<top>> \o SortedDesc(keys \ {top})

\* seq[:n]
Prefix(seq, n) == SubSeq(seq, 1, IF Len(seq) < n THEN Len(seq) ELSE n)

\* salario_min=1412.00, in cents
SalarioMin == 141200

\* The comprehension of line 134 filters on `data in contribs`: contribs is no
\* parameter or local of calcular_beneficio and no name bound at module level (it is
\* a local of extrair_contribuicoes and of processar_documentos), so evaluating the
\* filter for the first selected key raises NameError; lines 135-138 run only when no
\* key was selected.
calcular_beneficio(contribuicoes) ==
  IF DOMAIN contribuicoes = {} THEN Ret(None)
  ELSE LET datas == Prefix(SortedDesc(DOMAIN contribuicoes), 12)
       IN IF datas # <<>> THEN Raise("NameError") ELSE Ret(None)

(***************************************************************************)
(* Eligibility, required documents, approval                               *)
(***************************************************************************)
\* bool(x) of a value that is None or a str
Truthy(o) == o # None /\ o[1] # <<>>

MsgApta == "A cliente está apta a prosseguir."
MsgNaoApta == "A cliente não está apta a prosseguir. É necessário ter contribuído por 12 meses."

verificar_elegibilidade(dados) ==
  LET contribs == IF "contribuicoes" \in DOMAIN dados THEN dados["contribuicoes"][1]
                  ELSE EmptyDict
      pagou_12 == Cardinality(DOMAIN contribs) >= 12
  IN [pagou_12_meses |-> pagou_12,
      qualidade_segurada |-> TRUE,
      dentro_prazo |-> TRUE,
      mensagem |-> IF pagou_12 THEN MsgApta ELSE MsgNaoApta]

\* str.upper() of the form's field names
CampoUpper == [rg |-> "RG", certidao |-> "CERTIDAO", cnis |-> "CNIS", pis |-> "PIS",
               mei |-> "MEI"]

\* dados.get("ocupacao", "") == "MEI"
OcupacaoE(dados, o) == PyGet(dados, "ocupacao") = Some(o)

verificar_documentos_obrigatorios(dados) ==
  LET obrigatorios == IF OcupacaoE(dados, "MEI")
                      THEN <<"rg", "certidao", "cnis", "pis", "mei">>
                      ELSE <<"rg", "certidao", "cnis", "pis">>
      falta(doc) == ~Truthy(PyGet(dados, doc))
      faltantes == SelectSeq(obrigatorios, falta)
  IN [k \in 1..Len(faltantes) |-> CampoUpper[faltantes[k]]]

\* The score of calcular_aprovacao, doubled (0.5 is 1)
Score2(dados, ocupacao) ==
  (IF "elegibilidade" \in DOMAIN dados /\ dados["elegibilidade"][1].pagou_12_meses
   THEN 4 ELSE 0)
  + (IF PyGet(dados, "cpf_valido") = Some(TRUE) THEN 2 ELSE 0)
  + (IF verificar_documentos_obrigatorios(dados) = <<>> THEN 2 ELSE 0)
  + (IF ocupacao = Some("CLT") THEN 2
     ELSE IF ocupacao \in {Some("MEI"), Some("Autônoma"), Some("Desempregada")} THEN 1
     ELSE 0)

\* The scale with the comparisons score <= 2, score <= 3, score <= 4
Escala_limites_fechados(score2) ==
  IF score2 <= 4 THEN "Benefício Improvável"
  ELSE IF score2 <= 6 THEN "Pouco provável"
  ELSE IF score2 <= 8 THEN "Provável"
  ELSE "Muito provável"

\* Lines 179-186, on the doubled score
Escala(score2) ==
  IF score2 < 4 THEN "Benefício Improvável"
  ELSE IF score2 < 6 THEN "Pouco provável"
  ELSE IF score2 < 8 THEN "Provável"
  ELSE "Muito provável"

calcular_aprovacao(dados, ocupacao) == Escala(Score2(dados, ocupacao))

(***************************************************************************)
(* gerar_relatorio                                                         *)
(***************************************************************************)
CopiedKeys == {"rg", "certidao", "cnis", "pis", "mei", "nome", "cpf", "cpf_valido",
               "ocupacao"}

ReportKeys == CopiedKeys \cup {"beneficio_estimado", "elegibilidade",
                                "documentos_processados", "informacoes_incompletas",
                                "aprovacao"}

\* gerar_relatorio with the tier computed for no occupation: calcular_aprovacao
\* called with "" instead of dados.get("ocupacao", "")
gerar_relatorio_sem_ocupacao(dados) ==
  [k \in ReportKeys |->
     CASE k = "beneficio_estimado" -> PyGet(dados, "beneficio")
       [] k = "elegibilidade" -> Some(verificar_elegibilidade(dados))
       [] k = "documentos_processados" -> PyGet(dados, "documentos")
       [] k = "informacoes_incompletas" -> Some(verificar_documentos_obrigatorios(dados))
       [] k = "aprovacao" -> Some(calcular_aprovacao(dados, Some("")))
       [] OTHER -> PyGet(dados, k)]

gerar_relatorio(dados) ==
  [k \in ReportKeys |->
     CASE k = "beneficio_estimado" -> PyGet(dados, "beneficio")
       [] k = "elegibilidade" -> Some(verificar_elegibilidade(dados))
       [] k = "documentos_processados" -> PyGet(dados, "documentos")
       [] k = "informacoes_incompletas" -> Some(verificar_documentos_obrigatorios(dados))
       [] k = "aprovacao" ->
            Some(calcular_aprovacao(dados,
                                    IF "ocupacao" \in DOMAIN dados THEN dados["ocupacao"]
                                    ELSE Some("")))
       [] OTHER -> PyGet(dados, k)]

(***************************************************************************)
(* The uploaded documents: the text pdfplumber extracts from each          *)
(***************************************************************************)
TextoRgMaria ==
  <<"R", "E", "G", "I", "S", "T", "R", "O", " ", "G", "E", "R", "A", "L", " ", "-",
    " ", "C", "A", "R", "T", "E", "I", "R", "A", " ", "D", "E", " ", "I", "D", "E",
    "N", "T", "I", "D", "A", "D", "E", "\n", "N", "o", "m", "e", ":", " ", "M", "a",
    "r", "i", "a", " ", "S", "i", "l", "v", "a", ";", " ", "C", "P", "F", ":", " ",
    "5", "2", "9", ".", "9", "8", "2", ".", "2", "4", "7", "-", "2", "5", "\n">>

TextoRgSemCpf ==
  <<"R", "E", "G", "I", "S", "T", "R", "O", " ", "G", "E", "R", "A", "L", " ", "-",
    " ", "C", "A", "R", "T", "E", "I", "R", "A", " ", "D", "E", " ", "I", "D", "E",
    "N", "T", "I", "D", "A", "D", "E", "\n", "N", "O", "M", "E", ":", " ", "M", "A",
    "R", "I", "A", " ", "S", "I", "L", "V", "A", ";", " ", "d", "o", "c", "u", "m",
    "e", "n", "t", "o", " ", "s", "e", "m", " ", "n", "u", "m", "e", "r", "o", " ",
    "d", "e", " ", "c", "a", "d", "a", "s", "t", "r", "o", "\n">>

TextoRgCurto ==
  <<"N", "o", "m", "e", ":", " ", "M", "a", "r", "i", "a", " ", "S", "i", "l", "v",
    "a", "\n">>

TextoCertidaoMaria ==
  <<"C", "E", "R", "T", "I", "D", "A", "O", " ", "D", "E", " ", "N", "A", "S", "C",
    "I", "M", "E", "N", "T", "O", " ", "-", " ", "R", "E", "G", "I", "S", "T", "R",
    "O", " ", "C", "I", "V", "I", "L", "\n", "n", "o", "m", "e", ":", " ", "m", "a",
    "r", "i", "a", " ", "s", "i", "l", "v", "a", ";", " ", "p", "o", "r", "t", "a",
    "d", "o", "r", "a", " ", "d", "o", " ", "C", "P", "F", " ", "5", "2", "9", "9",
    "8", "2", "2", "4", "7", "2", "5", "\n">>

TextoCertidaoAna ==
  <<"C", "E", "R", "T", "I", "D", "A", "O", " ", "D", "E", " ", "N", "A", "S", "C",
    "I", "M", "E", "N", "T", "O", " ", "-", " ", "R", "E", "G", "I", "S", "T", "R",
    "O", " ", "C", "I", "V", "I", "L", "\n", "N", "o", "m", "e", ":", " ", "A", "n",
    "a", " ", "S", "o", "u", "z", "a", ";", " ", "C", "P", "F", ":", " ", "1", "1",
    "1", ".", "4", "4", "4", ".", "7", "7", "7", "-", "3", "6", "\n">>

TextoCnisVazio ==
  <<"E", "X", "T", "R", "A", "T", "O", " ", "P", "R", "E", "V", "I", "D", "E", "N",
    "C", "I", "A", "R", "I", "O", " ", "C", "N", "I", "S", "\n", "n", "e", "n", "h",
    "u", "m", "a", " ", "c", "o", "n", "t", "r", "i", "b", "u", "i", "c", "a", "o",
    " ", "r", "e", "g", "i", "s", "t", "r", "a", "d", "a", " ", "n", "o", " ", "p",
    "e", "r", "i", "o", "d", "o", "\n">>

TextoCnisUm ==
  <<"E", "X", "T", "R", "A", "T", "O", " ", "P", "R", "E", "V", "I", "D", "E", "N",
    "C", "I", "A", "R", "I", "O", " ", "C", "N", "I", "S", " ", "-", " ", "r", "e",
    "l", "a", "c", "a", "o", " ", "d", "e", " ", "c", "o", "n", "t", "r", "i", "b",
    "u", "i", "c", "o", "e", "s", "\n", "2", "0", "2", "3", "-", "0", "5", ":", " ",
    "1", ".", "2", "3", "4", ",", "5", "6", "\n">>

TextoCnisDoze ==
  <<"E", "X", "T", "R", "A", "T", "O", " ", "P", "R", "E", "V", "I", "D", "E", "N",
    "C", "I", "A", "R", "I", "O", " ", "C", "N", "I", "S", " ", "-", " ", "r", "e",
    "l", "a", "c", "a", "o", " ", "d", "e", " ", "c", "o", "n", "t", "r", "i", "b",
    "u", "i", "c", "o", "e", "s", "\n", "2", "0", "2", "3", "-", "0", "1", ":", " ",
    "2", ".", "0", "0", "0", ",", "0", "0", "\n", "2", "0", "2", "3", "-", "0", "2",
    ":", " ", "2", ".", "0", "0", "0", ",", "0", "0", "\n", "2", "0", "2", "3", "-",
    "0", "3", ":", " ", "2", ".", "0", "0", "0", ",", "0", "0", "\n", "2", "0", "2",
    "3", "-", "0", "4", ":", " ", "2", ".", "0", "0", "0", ",", "0", "0", "\n", "2",
    "0", "2", "3", "-", "0", "5", ":", " ", "2", ".", "0", "0", "0", ",", "0", "0",
    "\n", "2", "0", "2", "3", "-", "0", "6", ":", " ", "2", ".", "0", "0", "0", ",",
    "0", "0", "\n", "2", "0", "2", "3", "-", "0", "7", ":", " ", "2", ".", "0", "0",
    "0", ",", "0", "0", "\n", "2", "0", "2", "3", "-", "0", "8", ":", " ", "2", ".",
    "0", "0", "0", ",", "0", "0", "\n", "2", "0", "2", "3", "-", "0", "9", ":", " ",
    "2", ".", "0", "0", "0", ",", "0", "0", "\n", "2", "0", "2", "3", "-", "1", "0",
    ":", " ", "2", ".", "0", "0", "0", ",", "0", "0", "\n", "2", "0", "2", "3", "-",
    "1", "1", ":", " ", "2", ".", "0", "0", "0", ",", "0", "0", "\n", "2", "0", "2",
    "3", "-", "1", "2", ":", " ", "2", ".", "0", "0", "0", ",", "0", "0", "\n">>

TextoPis ==
  <<"C", "A", "R", "T", "A", "O", " ", "D", "O", " ", "T", "R", "A", "B", "A", "L",
    "H", "A", "D", "O", "R", "\n", "P", "I", "S", "/", "P", "A", "S", "E", "P", ":",
    " ", "1", "2", "3", ".", "4", "5", "6", "7", "8", ".", "9", "0", "-", "1", " ",
    "e", "m", "i", "t", "i", "d", "o", " ", "p", "e", "l", "a", " ", "C", "a", "i",
    "x", "a", " ", "E", "c", "o", "n", "o", "m", "i", "c", "a", "\n">>

TextoMei ==
  <<"C", "E", "R", "T", "I", "F", "I", "C", "A", "D", "O", " ", "D", "A", " ", "C",
    "O", "N", "D", "I", "C", "A", "O", " ", "D", "E", " ", "M", "I", "C", "R", "O",
    "E", "M", "P", "R", "E", "E", "N", "D", "E", "D", "O", "R", " ", "I", "N", "D",
    "I", "V", "I", "D", "U", "A", "L", "\n", "C", "C", "M", "E", "I", " ", "a", "t",
    "i", "v", "o", "\n">>

PdfTexto ==
  [RgMaria |-> TextoRgMaria, RgSemCpf |-> TextoRgSemCpf, RgCurto |-> TextoRgCurto,
   CertidaoMaria |-> TextoCertidaoMaria, CertidaoAna |-> TextoCertidaoAna,
   CnisVazio |-> TextoCnisVazio, CnisUm |-> TextoCnisUm, CnisDoze |-> TextoCnisDoze,
   Pis |-> TextoPis, Mei |-> TextoMei]

\* No upload is over MAX_CONTENT_LENGTH: Flask refuses such a request before any
\* handler runs.
Grandes == {}

(***************************************************************************)
(* Files: validar_arquivo, extrair_texto, renomear_arquivo.  fsys maps the *)
(* name of each file of temp/ to its content, the name of an uploaded      *)
(* document; PdfTexto is the text pdfplumber extracts from its first pages *)
(* and Grandes the documents over MAX_CONTENT_LENGTH.                      *)
(***************************************************************************)
\* os.path.splitext(nome)[1]: from the last point on, unless the name starts with it
Splitext(nome) ==
  LET dots == {k \in 1..Len(nome) : nome[k] = "."}
  IN IF dots = {} \/ Max(dots) = 1 THEN <<>> ELSE SubSeq(nome, Max(dots), Len(nome))

ExtPdf == <<".", "p", "d", "f">>
FormatoNaoSuportado == <<"F", "o", "r", "m", "a", "t", "o", " ", "n", "ã", "o", " ", "s", "u", "p", "o", "r", "t", "a", "d", "o", ".", " ", "E", "n", "v", "i", "e", " ", "u", "m", " ", "P", "D", "F", ".">>

\* extrair_texto_pdf logs any exception (a file that is gone) and returns ""
extrair_texto(fsys, nome) ==
  IF Lower(Splitext(nome)) # ExtPdf THEN FormatoNaoSuportado
  ELSE IF nome \in DOMAIN fsys THEN PdfTexto[fsys[nome]] ELSE <<>>

\* len(texto.strip()) < 50
MinTexto == 50
TextoCurto(texto) == Len(Strip(texto)) < MinTexto

\* The texts a step can read, and what each function of the text returns for them
\* (computed once for each text)
TextosLidos == {PdfTexto[b] : b \in DOMAIN PdfTexto} \cup {<<>>, FormatoNaoSuportado}
Extraido ==
  [t \in TextosLidos |->
     [curto |-> TextoCurto(t),
      nome |-> extrair_nome(t),
      cpf |-> extrair_cpf(t),
      cpf_valido |-> validar_cpf(extrair_cpf(t)),
      contribuicoes |-> extrair_contribuicoes(t),
      pis |-> extrair_pis(t)]]

\* validar_arquivo: os.path.getsize raises FileNotFoundError when the file is gone
validar_arquivo(fsys, nome) ==
  IF nome \notin DOMAIN fsys THEN Raise("FileNotFoundError")
  ELSE IF fsys[nome] \in Grandes THEN Ret(<<FALSE, "Arquivo muito grande. Máximo 5MB.">>)
  ELSE IF Lower(Splitext(nome)) # ExtPdf
       THEN Ret(<<FALSE, "Formato não suportado. Envie apenas PDFs.">>)
  ELSE IF Extraido[extrair_texto(fsys, nome)].curto
       THEN Ret(<<FALSE, "Qualidade do arquivo baixa. Texto insuficiente para análise.">>)
  ELSE Ret(<<TRUE, "Arquivo válido.">>)

verificar_qualidade_texto(texto) ==
  IF Extraido[texto].curto
  THEN "Baixa qualidade: texto insuficiente para análise."
  ELSE "OK"

\* The form's field names as str, and str.upper()
CampoStr == [rg |-> <<"r", "g">>,
             certidao |-> <<"c", "e", "r", "t", "i", "d", "a", "o">>,
             cnis |-> <<"c", "n", "i", "s">>,
             pis |-> <<"p", "i", "s">>,
             mei |-> <<"m", "e", "i">>]
Upper(s) == [i \in 1..Len(s) |-> ToUpper(s[i])]

\* novo_nome of renomear_arquivo
NovoNome(nome_arquivo, cpf, nome, tipo_doc) ==
  LET cpf_limpo == OnlyDigits(cpf)
      nome_limpo == Prefix(SelectSeq(Lower(nome), IsAsciiAlnum), 20)
  IN cpf_limpo \o <<"_">> \o nome_limpo \o <<"_">> \o Lower(tipo_doc)
     \o Splitext(nome_arquivo)

\* os.rename(src, dst): raises when src is gone and, where px is FALSE (Windows), when
\* dst exists; else dst becomes the file and src is gone
RenameRaises(fsys, px, src, dst) ==
  \/ src \notin DOMAIN fsys
  \/ ~px /\ dst \in DOMAIN fsys

OsRename(fsys, src, dst) ==
  [n \in (DOMAIN fsys \ {src}) \cup {dst} |-> IF n = dst THEN fsys[src] ELSE fsys[n]]

\* renomear_arquivo: the exception of os.rename is logged, and novo_caminho is
\* returned whether or not the file was renamed
renomear_arquivo(fsys, px, nome_arquivo, cpf, nome, tipo_doc) ==
  LET novo_nome == NovoNome(nome_arquivo, cpf, nome, tipo_doc)
  IN [novo_caminho |-> novo_nome,
      fs |-> IF RenameRaises(fsys, px, nome_arquivo, novo_nome) THEN fsys
             ELSE OsRename(fsys, nome_arquivo, novo_nome)]

(***************************************************************************)
(* processar_documentos, one step at a time.  A frame f holds the call's   *)
(* arguments (sub: the uploaded files and the form's ocupacao) and locals; *)
(* f.campo is the position of the for loop in Campos.  Each step maps a    *)
(* frame and the files of temp/ to the frame and the files after it.       *)
(***************************************************************************)
Campos == <<"rg", "certidao", "cnis", "pis", "mei">>

Enviado == <<"E", "n", "v", "i", "a", "d", "o">>

Frame(sub) ==
  [sub |-> sub, pc |-> "loop", campo |-> 1, nome_arquivo |-> <<>>,
   dados |-> EmptyDict, info_doc |-> EmptyDict, documentos |-> <<>>,
   relatorio |-> None, exc |-> None, resposta |-> None]

\* The fields from the loop's position on for which form_files holds a file
Restantes(f) == {i \in f.campo..Len(Campos) : f.sub.files[Campos[i]] # None}

\* Lines 235-237: file.save(caminho_temp) writes the upload under its own file name
DoSalvar(f, fsys) ==
  LET i == Min(Restantes(f))
      file == f.sub.files[Campos[i]][1]
  IN [f |-> [f EXCEPT !.campo = i, !.pc = "validar", !.nome_arquivo = file.filename],
      fs |-> PyPut(fsys, file.filename, file.data)]

\* The end of an iteration of the loop
Avancar(f) ==
  [f EXCEPT !.pc = "loop", !.campo = @ + 1, !.nome_arquivo = <<>>,
            !.info_doc = EmptyDict]

\* Lines 238-241: an invalid file is logged and skipped
DoValidar(f, fsys) ==
  LET r == validar_arquivo(fsys, f.nome_arquivo)
  IN [f |-> IF r.exc # None THEN [f EXCEPT !.pc = "abortou", !.exc = r.exc]
            ELSE IF ~r.value[1] THEN Avancar(f)
            ELSE [f EXCEPT !.pc = "extrair"],
      fs |-> fsys]

\* Lines 242-266: the text is read again and its fields are folded into dados_aggregados
DoExtrair(f, fsys) ==
  LET campo == Campos[f.campo]
      texto == extrair_texto(fsys, f.nome_arquivo)
      info0 == [k \in {"tipo", "arquivo_original", "qualidade"} |->
                  CASE k = "tipo" -> Some(CampoUpper[campo])
                    [] k = "arquivo_original" -> Some(f.nome_arquivo)
                    [] OTHER -> Some(verificar_qualidade_texto(texto))]
      nome == Extraido[texto].nome
      cpf == Extraido[texto].cpf
      valido == Some(Extraido[texto].cpf_valido)
      contribs == Extraido[texto].contribuicoes
      antes == IF "contribuicoes" \in DOMAIN f.dados THEN f.dados["contribuicoes"][1]
               ELSE EmptyDict
      pis == Extraido[texto].pis
      info == CASE campo \in {"rg", "certidao"} ->
                     IF cpf # <<>>
                     THEN PyPut(PyPut(PyPut(info0, "nome", Some(nome)), "cpf", Some(cpf)),
                                "cpf_valido", valido)
                     ELSE PyPut(PyPut(info0, "nome", Some(nome)), "cpf", Some(cpf))
                [] campo = "cnis" -> PyPut(info0, "contribuicoes", Some(contribs))
                [] campo = "pis" -> PyPut(info0, "pis", Some(pis))
                [] campo = "mei" -> PyPut(info0, "mei", Some(Enviado))
      dados == CASE campo \in {"rg", "certidao"} ->
                      IF cpf # <<>>
                      THEN PyPut(PyPut(PyPut(f.dados, "nome", Some(nome)), "cpf", Some(cpf)),
                                 "cpf_valido", PyGet(info, "cpf_valido"))
                      ELSE PyPut(f.dados, "nome", Some(nome))
                 [] campo = "cnis" -> PyPut(f.dados, "contribuicoes", Some(contribs @@ antes))
                 [] campo = "pis" -> PyPut(f.dados, "pis", Some(pis))
                 [] campo = "mei" -> PyPut(f.dados, "mei", Some(Enviado))
      g == [f EXCEPT !.dados = dados, !.info_doc = info]
  IN [f |-> IF Truthy(PyGet(dados, "cpf")) /\ Truthy(PyGet(dados, "nome"))
            THEN [g EXCEPT !.pc = "renomear"]
            ELSE Avancar([g EXCEPT !.documentos = Append(@, info)]),
      fs |-> fsys]

\* Lines 267-269
DoRenomear(f, fsys, px) ==
  LET r == renomear_arquivo(fsys, px, f.nome_arquivo, f.dados["cpf"][1], f.dados["nome"][1],
                            Upper(CampoStr[Campos[f.campo]]))
      info == PyPut(f.info_doc, "arquivo_renomeado", Some(r.novo_caminho))
  IN [f |-> Avancar([f EXCEPT !.documentos = Append(@, info)]),
      fs |-> r.fs]

MsgInconsistencia == "Inconsistência nos nomes extraídos. Verifique manualmente."

\* Line 278
NomeConta(doc) == Truthy(PyGet(doc, "nome")) /\ doc["nome"][1] # NaoEncontrado
Nomes(documentos) ==
  LET com == SelectSeq(documentos, NomeConta)
  IN [k \in 1..Len(com) |-> Lower(com[k]["nome"][1])]

\* set(seq)
Range(seq) == {seq[k] : k \in 1..Len(seq)}

\* Lines 270-284: an exception of calcular_beneficio is caught nowhere
DoFinalizar(f, fsys) ==
  LET d1 == PyPut(f.dados, "ocupacao", f.sub.ocupacao)
      ben == IF "contribuicoes" \in DOMAIN d1
             THEN calcular_beneficio(d1["contribuicoes"][1])
             ELSE Ret(None)
      d2 == PyPut(d1, "beneficio", ben.value)
      d3 == PyPut(d2, "documentos", Some(f.documentos))
      nomes == Nomes(f.documentos)
      d4 == PyPut(d3, "inconsistencia_nomes",
                  IF nomes # <<>> /\ Cardinality(Range(nomes)) > 1
                  THEN Some(MsgInconsistencia) ELSE Some("OK"))
  IN [f |-> IF ben.exc # None THEN [f EXCEPT !.pc = "abortou", !.exc = ben.exc, !.dados = d1]
            ELSE [f EXCEPT !.pc = "retornou", !.dados = d4,
                           !.relatorio = Some(gerar_relatorio(d4))],
      fs |-> fsys]

(***************************************************************************)
(* The two entry points that call processar_documentos                     *)
(***************************************************************************)
\* api_upload: jsonify(relatorio)
api_upload(relatorio, form_ocupacao) == relatorio

\* upload_form_post, lines 496-499: the tier is computed again, from the report
upload_form_post(relatorio, form_ocupacao) ==
  PyPut(PyPut(relatorio, "aprovacao", Some(calcular_aprovacao(relatorio, form_ocupacao))),
        "ocupacao", form_ocupacao)

DoResponder(f, handler) ==
  LET rel == f.relatorio[1]
      oc == f.sub.ocupacao
  IN [f EXCEPT !.pc = "respondeu",
               !.resposta = Some([handler |-> handler,
                                  dados |-> IF handler = "api_upload"
                                            THEN api_upload(rel, oc)
                                            ELSE upload_form_post(rel, oc)])]

(***************************************************************************)
(* The submissions                                                         *)
(***************************************************************************)
\* An upload: werkzeug's FileStorage
Arquivo(filename, data) == Some([filename |-> filename, data |-> data])

NomeRg == <<"r", "g", ".", "p", "d", "f">>
NomeCertidao == <<"c", "e", "r", "t", "i", "d", "a", "o", ".", "p", "d", "f">>
NomeCnis == <<"c", "n", "i", "s", ".", "p", "d", "f">>
NomePis == <<"p", "i", "s", ".", "p", "d", "f">>
NomeMei == <<"m", "e", "i", ".", "p", "d", "f">>
NomeMeiTxt == <<"m", "e", "i", ".", "t", "x", "t">>

ArquivosRg == {None, Arquivo(NomeRg, "RgMaria"), Arquivo(NomeRg, "RgSemCpf"),
               Arquivo(NomeRg, "RgCurto")}
ArquivosCertidao == {None, Arquivo(NomeCertidao, "CertidaoMaria"),
                     Arquivo(NomeCertidao, "CertidaoAna")}
ArquivosCnis == {None, Arquivo(NomeCnis, "CnisVazio"), Arquivo(NomeCnis, "CnisUm"),
                 Arquivo(NomeCnis, "CnisDoze")}
ArquivosPis == {None, Arquivo(NomePis, "Pis")}
ArquivosMei == {None, Arquivo(NomeMei, "Mei"), Arquivo(NomeMeiTxt, "Mei")}

\* form_data.get("ocupacao"): None when the form has no such field
Ocupacoes == {Some("CLT"), Some("MEI"), Some("Desempregada"), None}

Submissoes ==
  {[files |-> [rg |-> a, certidao |-> b, cnis |-> c, pis |-> d, mei |-> e],
    ocupacao |-> o] :
     a \in ArquivosRg, b \in ArquivosCertidao, c \in ArquivosCnis, d \in ArquivosPis,
     e \in ArquivosMei, o \in Ocupacoes}

(***************************************************************************)
(* Spec: a submission is processed, and then the same submission again     *)
(***************************************************************************)
Procs == {1, 2}
Final == {"respondeu", "abortou"}

Passo(p, r) ==
  /\ proc' = [proc EXCEPT ![p] = r.f]
  /\ fs' = r.fs
  /\ UNCHANGED <<posix, arg, res>>

Salvar(p) ==
  /\ proc[p].pc = "loop"
  /\ Restantes(proc[p]) # {}
  /\ Passo(p, DoSalvar(proc[p], fs))

Validar(p) ==
  /\ proc[p].pc = "validar"
  /\ Passo(p, DoValidar(proc[p], fs))

Extrair(p) ==
  /\ proc[p].pc = "extrair"
  /\ Passo(p, DoExtrair(proc[p], fs))

Renomear(p) ==
  /\ proc[p].pc = "renomear"
  /\ Passo(p, DoRenomear(proc[p], fs, posix))

Finalizar(p) ==
  /\ proc[p].pc = "loop"
  /\ Restantes(proc[p]) = {}
  /\ Passo(p, DoFinalizar(proc[p], fs))

Responder(p) ==
  /\ proc[p].pc = "retornou"
  /\ \E handler \in {"api_upload", "upload_form_post"} :
       Passo(p, [f |-> DoResponder(proc[p], handler), fs |-> fs])

\* The second request arrives when the first is over
Vez(p) == p = 1 \/ proc[1].pc \in Final

Init ==
  /\ \E sub \in Submissoes : proc = [p \in Procs |-> Frame(sub)]
  /\ fs = EmptyDict
  /\ posix \in BOOLEAN
  /\ arg = None
  /\ res = None

Next ==
  \/ \E p \in Procs : Vez(p) /\ Salvar(p)
  \/ \E p \in Procs : Vez(p) /\ Validar(p)
  \/ \E p \in Procs : Vez(p) /\ Extrair(p)
  \/ \E p \in Procs : Vez(p) /\ Renomear(p)
  \/ \E p \in Procs : Vez(p) /\ Finalizar(p)
  \/ \E p \in Procs : Vez(p) /\ Responder(p)

Spec == Init /\ [][Next]_vars

(***************************************************************************)
(* Claims about the pipeline, checked under Spec                           *)
(***************************************************************************)
Terminou(p) == proc[p].pc \in {"retornou", "respondeu", "abortou"}
Retornou(p) == proc[p].relatorio # None

\* C1: every submission (any subset of the five documents, each valid or not, any
\* text, any occupation) ends with processar_documentos returning a report; no input
\* makes the call end in an uncaught exception, a non-empty contribution map included.
C1_SempreRelatorio ==
  \A p \in Procs : proc[p].pc # "abortou"

\* The document types a submission supplies, by declared type
Enviados(sub) == {CampoUpper[Campos[i]] : i \in {k \in 1..Len(Campos) : sub.files[Campos[k]] # None}}

\* The required set of the specification
Obrigatorios(ocupacao) ==
  {"RG", "CERTIDAO", "CNIS", "PIS"} \cup (IF ocupacao = Some("MEI") THEN {"MEI"} ELSE {})

\* C3: in every report, the missing required documents are the required set (identity,
\* birth certificate, contribution statement, social-insurance card, and the
\* self-employment proof exactly when the occupation is MEI) minus the document types
\* the submission supplied, a supplied document counting even when judged invalid.
C3_FaltantesSaoOsNaoEnviados ==
  \A p \in Procs :
    Retornou(p) =>
      Range(proc[p].relatorio[1]["informacoes_incompletas"][1])
        = Obrigatorios(proc[p].sub.ocupacao) \ Enviados(proc[p].sub)

\* The score the claim reads off a report's own fields, doubled
PontosDoRelatorio(r) ==
  (IF r["elegibilidade"][1].pagou_12_meses THEN 4 ELSE 0)
  + (IF r["cpf_valido"] = Some(TRUE) THEN 2 ELSE 0)
  + (IF r["informacoes_incompletas"] = Some(<<>>) THEN 2 ELSE 0)
  + (CASE r["ocupacao"] = Some("CLT") -> 2
       [] r["ocupacao"] \in {Some("MEI"), Some("Autônoma"), Some("Desempregada")} -> 1
       [] OTHER -> 0)

TierDe(pontos2) ==
  CASE pontos2 < 4 -> "Benefício Improvável"
    [] pontos2 >= 4 /\ pontos2 < 6 -> "Pouco provável"
    [] pontos2 >= 6 /\ pontos2 < 8 -> "Provável"
    [] OTHER -> "Muito provável"

NomesDistintos(documentos) ==
  {Lower(documentos[k]["nome"][1]) :
     k \in {j \in 1..Len(documentos) :
              /\ "nome" \in DOMAIN documentos[j]
              /\ documentos[j]["nome"][1] \notin {<<>>, NaoEncontrado}}}

\* C7: the report carries a name-consistency verdict, which is the inconsistency
\* message iff the processed identity and birth-certificate documents yield more than
\* one distinct name.
C7_RelatorioTrazVeredito ==
  \A p \in Procs :
    Retornou(p) =>
      LET r == proc[p].relatorio[1]
      IN /\ "inconsistencia_nomes" \in DOMAIN r
         /\ (r["inconsistencia_nomes"] = Some(MsgInconsistencia))
              <=> (Cardinality(NomesDistintos(proc[p].documentos)) > 1)

\* C9: the same submission processed twice in succession yields two identical reports.
C9_DoisRelatoriosIguais ==
  (Terminou(1) /\ Terminou(2)) =>
    /\ Retornou(1)
    /\ Retornou(2)
    /\ proc[1].relatorio = proc[2].relatorio

(***************************************************************************)
(* The functions called on their own: arg is the argument, res the result  *)
(* once the call has returned; no request is in progress.                  *)
(***************************************************************************)
SemArquivos == [files |-> [rg |-> None, certidao |-> None, cnis |-> None, pis |-> None,
                           mei |-> None],
                ocupacao |-> None]

Parado ==
  /\ proc = [p \in Procs |-> Frame(SemArquivos)]
  /\ fs = EmptyDict
  /\ posix = TRUE

Retorna(valor) ==
  /\ res = None
  /\ res' = Some(valor)
  /\ UNCHANGED <<proc, fs, posix, arg>>

(***************************************************************************)
(* SpecBeneficio: calcular_beneficio on contribution maps of up to MaxMeses *)
(* consecutive months                                                      *)
(***************************************************************************)
MaxMeses == 13

TwoDigits(n) == <<DigitChr(n \div 10), DigitChr(n % 10)>>

\* The YYYY-MM key of the i-th month from January 2022 on
Mes(i) == <<"2", "0", "2">> \o <<DigitChr(2 + (i - 1) \div 12)>> \o <<"-">>
          \o TwoDigits(((i - 1) % 12) + 1)

Valores == {100000, 150000, 200000}

\* n months; the oldest k hold the amount b and the others the amount a
MapaContrib(n, k, a, b) ==
  LET meses == {Mes(i) : i \in 1..n}
  IN [m \in meses |-> IF \E i \in 1..k : m = Mes(i) THEN b ELSE a]

MapasContrib ==
  {MapaContrib(n, k, a, b) : n \in 0..MaxMeses, k \in 0..2, a \in Valores, b \in Valores}

InitBeneficio ==
  /\ Parado
  /\ arg \in MapasContrib
  /\ res = None

ChamarCalcularBeneficio == Retorna(calcular_beneficio(arg))

NextBeneficio == ChamarCalcularBeneficio

SpecBeneficio == InitBeneficio /\ [][NextBeneficio]_vars

RECURSIVE Soma(_, _)
Soma(f, S) ==
  IF S = {} THEN 0
  ELSE LET x == CHOOSE y \in S : TRUE IN f[x] + Soma(f, S \ {x})

\* The up-to-12 lexicographically greatest keys
MaisRecentes(contribuicoes) ==
  {k \in DOMAIN contribuicoes :
     Cardinality({j \in DOMAIN contribuicoes : StrLess(k, j)}) < 12}

\* The mean of the selected amounts, to the nearest cent
MediaRecentes(contribuicoes) ==
  LET sel == MaisRecentes(contribuicoes)
      n == Cardinality(sel)
  IN (2 * Soma(contribuicoes, sel) + n) \div (2 * n)

BeneficioEsperado(contribuicoes) ==
  IF DOMAIN contribuicoes = {} THEN None
  ELSE LET media == MediaRecentes(contribuicoes)
       IN Some(IF media > SalarioMin THEN media ELSE SalarioMin)

\* C2: calcular_beneficio returns no estimate for an empty map and, for any other,
\* the greater of the minimum wage and the mean of the amounts of the up-to-12
\* greatest YYYY-MM keys (12 months of 1000.00 give 1412.00, of 2000.00 give 2000.00).
C2_BeneficioEhMediaOuMinimo ==
  res # None => res[1] = Ret(BeneficioEsperado(arg))

(***************************************************************************)
(* SpecAprovacao: calcular_aprovacao on the records it can be given        *)
(***************************************************************************)
OcupacoesForm == {Some("CLT"), Some("MEI"), Some("Autônoma"), Some("Desempregada"),
                  Some("Outra"), None}

\* dados with the keys of S set to a non-empty str, the eligibility e
\* ("ausente": no such key) and the validity v of the CPF ("ausente": no such key)
DadosDe(S, e, v, ocupacao) ==
  [k \in S \cup {"ocupacao"}
         \cup (IF e = "ausente" THEN {} ELSE {"elegibilidade"})
         \cup (IF v = "ausente" THEN {} ELSE {"cpf_valido"}) |->
     CASE k = "ocupacao" -> ocupacao
       [] k = "elegibilidade" -> Some([pagou_12_meses |-> (e = "sim")])
       [] k = "cpf_valido" -> Some(v = "sim")
       [] OTHER -> Some(Enviado)]

EntradasAprovacao ==
  {[dados |-> DadosDe(S, e, v, o), ocupacao |-> o] :
     S \in SUBSET {"rg", "certidao", "cnis", "pis", "mei"},
     e \in {"ausente", "sim", "nao"}, v \in {"ausente", "sim", "nao"},
     o \in OcupacoesForm}

InitAprovacao ==
  /\ Parado
  /\ arg \in EntradasAprovacao
  /\ res = None

ChamarCalcularAprovacao == Retorna(calcular_aprovacao(arg.dados, arg.ocupacao))

NextAprovacao == ChamarCalcularAprovacao

SpecAprovacao == InitAprovacao /\ [][NextAprovacao]_vars

\* The conditions of the score, as the claim states them
LimiarAtingido(dados) ==
  "elegibilidade" \in DOMAIN dados /\ dados["elegibilidade"][1].pagou_12_meses
CpfValido(dados) == "cpf_valido" \in DOMAIN dados /\ dados["cpf_valido"] = Some(TRUE)
NadaFalta(dados) ==
  \A doc \in {"rg", "certidao", "cnis", "pis"}
             \cup (IF dados["ocupacao"] = Some("MEI") THEN {"mei"} ELSE {}) :
    doc \in DOMAIN dados

\* The score, doubled: 2 for the threshold, 1 for the CPF, 1 for no missing document,
\* 1 for CLT or 0.5 for MEI, Autônoma, Desempregada
Pontos2(dados, ocupacao) ==
  (IF LimiarAtingido(dados) THEN 4 ELSE 0)
  + (IF CpfValido(dados) THEN 2 ELSE 0)
  + (IF NadaFalta(dados) THEN 2 ELSE 0)
  + (CASE ocupacao = Some("CLT") -> 2
       [] ocupacao \in {Some("MEI"), Some("Autônoma"), Some("Desempregada")} -> 1
       [] OTHER -> 0)

\* C5: calcular_aprovacao maps the score to a tier with half-open boundaries: below 2
\* Benefício Improvável, from 2 below 3 Pouco provável, from 3 below 4 Provável, from 4
\* on Muito provável; all conditions true give Muito provável for CLT (5) and for
\* Desempregada (4.5), all false give Benefício Improvável.
C5_EscalaDaPontuacao ==
  res # None =>
    LET pontos2 == Pontos2(arg.dados, arg.ocupacao)
        tudo == LimiarAtingido(arg.dados) /\ CpfValido(arg.dados) /\ NadaFalta(arg.dados)
    IN /\ res[1] = TierDe(pontos2)
       /\ (tudo /\ arg.ocupacao = Some("CLT")) => (pontos2 = 10 /\ res[1] = "Muito provável")
       /\ (tudo /\ arg.ocupacao = Some("Desempregada"))
            => (pontos2 = 9 /\ res[1] = "Muito provável")
       /\ pontos2 = 0 => res[1] = "Benefício Improvável"

\* C5's case: a score of exactly 2.0, on the boundary of the two lowest tiers
C5_Witness ==
  /\ res = Some("Pouco provável")
  /\ Pontos2(arg.dados, arg.ocupacao) = 4

(***************************************************************************)
(* SpecCpf: validar_cpf on strings of 8 to 11 + MaxExtra digits, bare or   *)
(* punctuated, and on strings without digits                               *)
(***************************************************************************)
MaxExtra == 1

Bases == {<<"5", "2", "9", "9", "8", "2", "2", "4", "7">>,
          <<"1", "1", "1", "4", "4", "4", "7", "7", "7">>,
          <<"1", "1", "1", "1", "1", "1", "1", "1", "1">>,
          <<"0", "0", "0", "0", "0", "0", "0", "0", "0">>,
          <<"1", "2", "3", "4", "5", "6", "7", "8", "9">>}

Zeros(k) == [i \in 1..k |-> "0"]

\* The base b, k more digits, and the two last digits d10 d11, written bare ("nua"),
\* as ddd.ddd.ddd-dd ("pontuada"), or with the ninth digit left out ("curta")
EntradaCpf(b, d10, d11, forma, k) ==
  CASE forma = "nua" -> b \o Zeros(k) \o <<d10, d11>>
    [] forma = "pontuada" ->
         SubSeq(b, 1, 3) \o <<".">> \o SubSeq(b, 4, 6) \o <<".">> \o SubSeq(b, 7, 9)
         \o <<"-">> \o Zeros(k) \o <<d10, d11>>
    [] OTHER -> SubSeq(b, 1, 8) \o <<d10, d11>>

EntradasCpf ==
  {EntradaCpf(b, DigitChars[i], DigitChars[j], forma, k) :
     b \in Bases, i \in 1..10, j \in 1..10, forma \in {"nua", "pontuada"},
     k \in 0..MaxExtra}
  \cup {EntradaCpf(b, DigitChars[i], DigitChars[j], "curta", 0) :
          b \in Bases, i \in 1..10, j \in 1..10}
  \cup {<<>>, NaoEncontrado}

InitCpf ==
  /\ Parado
  /\ arg \in EntradasCpf
  /\ res = None

ChamarValidarCpf == Retorna(validar_cpf(arg))

NextCpf == ChamarValidarCpf

SpecCpf == InitCpf /\ [][NextCpf]_vars

\* The digits of a string, as numbers
Algarismos(s) == LET d == OnlyDigits(s) IN [k \in 1..Len(d) |-> DigitVal(d[k])]

\* Check digit 1: weights 10..2 over the first 9 digits
Verificador1(n) ==
  LET r == (10 * n[1] + 9 * n[2] + 8 * n[3] + 7 * n[4] + 6 * n[5] + 5 * n[6] + 4 * n[7]
            + 3 * n[8] + 2 * n[9]) % 11
  IN IF r < 2 THEN 0 ELSE 11 - r

\* Check digit 2: weights 11..2 over the first 9 digits and check digit 1
Verificador2(n) ==
  LET r == (11 * n[1] + 10 * n[2] + 9 * n[3] + 8 * n[4] + 7 * n[5] + 6 * n[6] + 5 * n[7]
            + 4 * n[8] + 3 * n[9] + 2 * Verificador1(n)) % 11
  IN IF r < 2 THEN 0 ELSE 11 - r

UltimosConferem(n) ==
  /\ Len(n) >= 11
  /\ n[Len(n) - 1] = Verificador1(n)
  /\ n[Len(n)] = Verificador2(n)

TodosIguais(n) == \A k \in 1..Len(n) : n[k] = n[1]

\* C6, as stated: validar_cpf is false when fewer than 11 digits remain or all 11 are
\* identical, and otherwise true iff the last two digits equal the two check digits.
C6_MenosDeOnze ==
  res # None =>
    LET n == Algarismos(arg)
    IN res[1] = (/\ ~(Len(n) < 11)
                 /\ ~(Len(n) = 11 /\ TodosIguais(n))
                 /\ UltimosConferem(n))

\* C6, amended: validar_cpf returns a boolean; it is false when the digits that remain
\* are not exactly 11 or all 11 are identical, and otherwise true iff the last two
\* digits equal, in order, check digit 1 and check digit 2; changing either check digit
\* of a valid ID to any other digit makes it invalid.
C6_ExatamenteOnze ==
  res # None =>
    LET n == Algarismos(arg)
        d == OnlyDigits(arg)
    IN /\ res[1] \in BOOLEAN
       /\ res[1] = (Len(n) = 11 /\ ~TodosIguais(n) /\ UltimosConferem(n))
       /\ res[1] => \A pos \in {10, 11} : \A c \in DigitSet \ {d[pos]} :
                      ~validar_cpf([d EXCEPT ![pos] = c])

\* C6's case: more than 11 digits whose last two equal the check digits, rejected
C6_Witness ==
  /\ res = Some(FALSE)
  /\ Len(Algarismos(arg)) > 11
  /\ UltimosConferem(Algarismos(arg))

(***************************************************************************)
(* SpecContrib: extrair_contribuicoes on texts of up to MaxOcc lines, each *)
(* a YYYY-MM key, a colon, a blank and a numeral                           *)
(***************************************************************************)
MaxOcc == 3

ChavesContrib == {<<"2", "0", "2", "3", "-", "0", "5">>, <<"2", "0", "2", "3", "-", "0", "6">>}

\* The numerals of the lines, and for each whether it parses under the thousands-dot,
\* decimal-comma convention and the amount it writes, in cents:
\* "1.234,56", "2.000", "0,999", "1,2,3", ".." and the empty numeral
Numerais ==
  {[str |-> <<"1", ".", "2", "3", "4", ",", "5", "6">>, ok |-> TRUE, cents |-> 123456],
   [str |-> <<"2", ".", "0", "0", "0">>, ok |-> TRUE, cents |-> 200000],
   [str |-> <<"0", ",", "9", "9", "9">>, ok |-> TRUE, cents |-> 100],
   [str |-> <<"1", ",", "2", ",", "3">>, ok |-> FALSE, cents |-> 0],
   [str |-> <<".", ".">>, ok |-> FALSE, cents |-> 0],
   [str |-> <<>>, ok |-> FALSE, cents |-> 0]}

Ocorrencias == {[chave |-> c, numeral |-> n] : c \in ChavesContrib, n \in Numerais}

\* All sequences over S of length up to n
SeqAte(S, n) == UNION {[1..k -> S] : k \in 0..n}

RECURSIVE TextoDe(_)
TextoDe(ocs) ==
  IF ocs = <<>> THEN <<>>
  ELSE ocs[1].chave \o <<":", " ">> \o ocs[1].numeral.str
       \o (IF Len(ocs) > 1 THEN <<"\n">> ELSE <<>>) \o TextoDe(Tail(ocs))

InitContrib ==
  /\ Parado
  /\ \E ocs \in SeqAte(Ocorrencias, MaxOcc) : arg = [ocorrencias |-> ocs, texto |-> TextoDe(ocs)]
  /\ res = None

ChamarExtrairContribuicoes == Retorna(extrair_contribuicoes(arg.texto))

NextContrib == ChamarExtrairContribuicoes

SpecContrib == InitContrib /\ [][NextContrib]_vars

\* The map the claim describes for the lines ocs: the keys of the lines whose numeral
\* parses, each with the amount of its last such line
MapaEsperado(ocs) ==
  LET boas(c) == {k \in 1..Len(ocs) : ocs[k].chave = c /\ ocs[k].numeral.ok}
  IN [c \in {ocs[k].chave : k \in {j \in 1..Len(ocs) : ocs[j].numeral.ok}} |->
        ocs[Max(boas(c))].numeral.cents]

\* C8: extrair_contribuicoes returns the map whose keys are exactly the keys of the
\* occurrences 'YYYY-MM: <amount>' whose numeral parses, each with the non-negative
\* amount of its last parseable occurrence; an occurrence whose numeral does not parse
\* is skipped and prevents no occurrence before or after it from being extracted.
C8_ChavesDasOcorrencias ==
  res # None =>
    /\ res[1] = MapaEsperado(arg.ocorrencias)
    /\ \A c \in DOMAIN res[1] : res[1][c] >= 0

\* The same for the texts in which no line but the last has an empty numeral: \s* then
\* matches the blank only, and every line is one match of the pattern
SemNumeralVazio(ocs) == \A k \in 1..(Len(ocs) - 1) : ocs[k].numeral.str # <<>>

ContribComNumeral ==
  (res # None /\ SemNumeralVazio(arg.ocorrencias)) => res[1] = MapaEsperado(arg.ocorrencias)

(***************************************************************************)
(* SpecConc: two requests are processed at the same time, their steps      *)
(* interleaved; temp/ is the one directory of both                         *)
(***************************************************************************)
NomeDoc == <<"d", "o", "c", ".", "p", "d", "f">>

ArquivosRgConc == {Arquivo(NomeRg, "RgMaria"), Arquivo(NomeRg, "RgSemCpf"),
                   Arquivo(NomeDoc, "RgMaria")}
ArquivosCertidaoConc == {None, Arquivo(NomeCertidao, "CertidaoAna")}

SubmissoesConc ==
  {[files |-> [rg |-> a, certidao |-> b, cnis |-> None, pis |-> None, mei |-> None],
    ocupacao |-> Some("CLT")] :
     a \in ArquivosRgConc, b \in ArquivosCertidaoConc}

InitConc ==
  /\ proc \in [Procs -> {Frame(sub) : sub \in SubmissoesConc}]
  /\ fs = EmptyDict
  /\ posix \in BOOLEAN
  /\ arg = None
  /\ res = None

NextConc ==
  \/ \E p \in Procs : Salvar(p)
  \/ \E p \in Procs : Validar(p)
  \/ \E p \in Procs : Extrair(p)
  \/ \E p \in Procs : Renomear(p)
  \/ \E p \in Procs : Finalizar(p)
  \/ \E p \in Procs : Responder(p)

SpecConc == InitConc /\ [][NextConc]_vars

\* processar_documentos run alone from the frame f and the files fsys, to its end
RECURSIVE Sozinha(_, _, _)
Sozinha(f, fsys, px) ==
  IF f.pc \in {"retornou", "abortou"} THEN f
  ELSE LET r == CASE f.pc = "loop" /\ Restantes(f) # {} -> DoSalvar(f, fsys)
                  [] f.pc = "loop" /\ Restantes(f) = {} -> DoFinalizar(f, fsys)
                  [] f.pc = "validar" -> DoValidar(f, fsys)
                  [] f.pc = "extrair" -> DoExtrair(f, fsys)
                  [] f.pc = "renomear" -> DoRenomear(f, fsys, px)
       IN Sozinha(r.f, r.fs, px)

\* C10: under every interleaving of the steps of two concurrent submissions, each
\* submission's report equals the report it produces when run alone, also when both
\* upload files with the same original filename.
C10_RelatorioComoSozinha ==
  \A p \in Procs :
    Terminou(p) =>
      LET so == Sozinha(Frame(proc[p].sub), EmptyDict, posix)
      IN /\ proc[p].relatorio = so.relatorio
         /\ proc[p].exc = so.exc

(***************************************************************************)
(* Claims about the fold of the documents, checked under Spec              *)
(***************************************************************************)
\* The entries of documentos_processados of the declared type tipo
EntradasDoTipo(documentos, tipo) ==
  {k \in 1..Len(documentos) : documentos[k]["tipo"] = Some(tipo)}

\* A value that was actually extracted: present and not the 'not found' placeholder
Extraiu(o) == o # None /\ o[1] # NaoEncontrado

\* C11: the record's tax ID and its validity are those of the first name-bearing
\* document that yields one: once the identity document has yielded a tax ID, the
\* record's cpf and cpf_valido stay those of the identity document, whatever the birth
\* certificate processed after it contains.
C11_CpfDoPrimeiroDocumento ==
  \A p \in Procs :
    \A k \in EntradasDoTipo(proc[p].documentos, "RG") :
      LET rg == proc[p].documentos[k]
      IN Extraiu(PyGet(rg, "cpf")) =>
           /\ PyGet(proc[p].dados, "cpf") = PyGet(rg, "cpf")
           /\ PyGet(proc[p].dados, "cpf_valido") = PyGet(rg, "cpf_valido")

\* C12: in every report, cpf_valido is present only when a tax ID was extracted: if no
\* processed document yields a tax ID, cpf and cpf_valido are both absent, rather than
\* cpf holding the placeholder with cpf_valido false.
C12_SemCpfSemValidade ==
  \A p \in Procs :
    Retornou(p) =>
      LET r == proc[p].relatorio[1]
          docs == proc[p].documentos
      IN (\A k \in 1..Len(docs) : ~Extraiu(PyGet(docs[k], "cpf")))
           => (r["cpf"] = None /\ r["cpf_valido"] = None)

\* C13: renomear_arquivo is called for a document only when the record holds an
\* extracted tax ID and an extracted name, neither absent nor the placeholder, and no
\* stored filename is built from a placeholder.
C13_RenomeiaSoComCpfENome ==
  \A p \in Procs :
    /\ proc[p].pc = "renomear" =>
         (Extraiu(PyGet(proc[p].dados, "cpf")) /\ Extraiu(PyGet(proc[p].dados, "nome")))
    /\ \A k \in 1..Len(proc[p].documentos) :
         LET doc == proc[p].documentos[k]
         IN "arquivo_renomeado" \in DOMAIN doc =>
              doc["arquivo_renomeado"][1][1] # "_"

\* The step of p from pc = "renomear" in which os.rename raises
RenomearFalha(p) ==
  /\ proc[p].pc = "renomear"
  /\ proc'[p].pc # "renomear"
  /\ RenameRaises(fs, posix, proc[p].nome_arquivo,
                  NovoNome(proc[p].nome_arquivo, proc[p].dados["cpf"][1],
                           proc[p].dados["nome"][1], Upper(CampoStr[Campos[proc[p].campo]])))

\* C14: when os.rename raises for a document, the pipeline goes on and the document's
\* entry in documentos_processados keeps the original reference: it records no renamed
\* file name other than the name the file still has.
C14_FalhaMantemOriginal ==
  [][\A p \in Procs :
       RenomearFalha(p) =>
         LET doc == proc'[p].documentos[Len(proc'[p].documentos)]
         IN /\ proc'[p].pc = "loop"
            /\ doc["arquivo_original"] = Some(proc[p].nome_arquivo)
            /\ PyGet(doc, "arquivo_renomeado") \in {None, Some(proc[p].nome_arquivo)}]_vars

====
